---------------------------- MODULE Spec2Model ----------------------------
(***************************************************************************)
(* A model of server.js: the four routes /signup, /login, /profile and     *)
(* /logout, run as concurrent requests against the users table and the     *)
(* pg-backed express-session store.                                        *)
(*                                                                         *)
(* A request is a sequence of steps, one per store operation the handler   *)
(* awaits; the steps of the requests in flight interleave arbitrarily.     *)
(* Time is counted in ticks of 24 hours.                                   *)
(***************************************************************************)
EXTENDS Integers, FiniteSets, TLC

\* ------------------------------------------------------------------ bounds

\* Requests started in one behaviour: while the clock stands still and no
\* store operation fails, while the clock runs, and while store operations fail.
MaxReq == 3
ClockReq == 2
FaultReq == 2
\* Requests started in one behaviour while accounts are deleted.
AdminReq == 2
\* Last tick of the clock.
MaxTime == 1
\* Store operations that fail in one behaviour.
MaxFaults == 1

\* ------------------------------------------------------------------ inputs

\* The requests that can be in flight at once.
Slots == {"r1", "r2"}

\* Request bodies {email, password}; "" stands for an empty or missing field.
Bodies ==
  { [email |-> "a", password |-> "p"],
    [email |-> "a", password |-> "q"],
    [email |-> "b", password |-> "p"],
    [email |-> "",  password |-> "p"],
    [email |-> "a", password |-> ""] }

\* The session ids a behaviour can draw, and the cookies a request can carry:
\* none (0) or a session id.
Sids == 1..(MaxReq + 1)
Cookies == {0} \cup Sids

\* A request without a body (GET /profile, POST /logout).
NoBody == [email |-> "", password |-> ""]

\* ---------------------------------------------------------------- constants

\* cookie: { maxAge: 24*60*60*1000 }, in ticks.
maxAge == 1

\* ------------------------------------------------------------------- state

VARIABLES
  users,      \* the rows of table users
  nextId,     \* the SERIAL sequence behind users.id
  sessions,   \* the rows of table session: sid -> [data, expire]
  nextSid,    \* the next session id uid-safe draws
  issued,     \* the session ids sent to a client in a Set-Cookie
  now,        \* the clock
  req,        \* the request of each slot, with its response once answered
  nreq,       \* requests started
  nfault,     \* store operations failed
  loggedOut,  \* history: the session ids a completed logout destroyed
  bound       \* history: <<sid, id>> for each session a signup or a login with
              \* the account's password bound to account id

vars == <<users, nextId, sessions, nextSid, issued, now, req, nreq, nfault, loggedOut, bound>>

\* ------------------------------------------------------------- the session

\* req.session before a handler wrote to it.
Empty == [userId |-> 0, email |-> ""]

\* The id of a session generate() made: uid-safe's 24 random bytes, which no
\* row and no cookie holds until the session is saved. The number that stands
\* for it is drawn when it is first stored.
Fresh == -1

\* PgSession.get without its expiry test.
StoreGetAnyAge(sid, t) ==
  {sessions[s].data : s \in {x \in DOMAIN sessions : x = sid}}

\* PgSession.get: SELECT sess FROM session WHERE sid = $1 AND expire >= now;
\* the rows found, none or one.
StoreGet(sid, t) ==
  {sessions[s].data : s \in {x \in DOMAIN sessions : x = sid /\ sessions[x].expire >= t}}

\* PgSession.set: INSERT ... ON CONFLICT (sid) DO UPDATE SET sess, expire.
StoreSet(sid, data, t) ==
  [s \in DOMAIN sessions \cup {sid} |->
     IF s = sid THEN [data |-> data, expire |-> t + maxAge] ELSE sessions[s]]

\* PgSession.touch: UPDATE session SET expire = $1 WHERE sid = $2.
StoreTouch(sid, t) ==
  [s \in DOMAIN sessions |->
     IF s = sid THEN [sessions[s] EXCEPT !.expire = t + maxAge] ELSE sessions[s]]

\* PgSession.destroy: DELETE FROM session WHERE sid = $1.
StoreDestroy(sid) == [s \in DOMAIN sessions \ {sid} |-> sessions[s]]

\* PgSession's pruning: DELETE FROM session WHERE expire < now.
StorePrune(t) ==
  [s \in {x \in DOMAIN sessions : sessions[x].expire >= t} |-> sessions[s]]

\* ------------------------------------------------------------ the accounts

\* findUserByEmail whose SELECT matches no row.
findUserByEmailNoMatch(email) == {}

\* findUserByEmail: the rows with this email (at most one, email is UNIQUE).
findUserByEmail(email) == {u \in users : u.email = email}

\* SELECT id, email, created_at FROM users WHERE id = $1.
findUserById(id) == {u \in users : u.id = id}

\* bcrypt.hash(password, 10): a digest that embeds the salt it drew.
bcryptHash(password, salt) == [salt |-> salt, of |-> password]

\* bcrypt.compare whose promise is tested instead of its result: always truthy.
bcryptCompareNoAwait(password, hash) == TRUE

\* A comparison of the digest with a new hash of the password, under a new salt.
bcryptCompareNewSalt(password, hash) == bcryptHash(password, 0) = hash

\* bcrypt.compare(password, hash): re-hash under the digest's salt and compare.
bcryptCompare(password, hash) == bcryptHash(password, hash.salt) = hash

\* !email || !password
Invalid(b) == b.email = "" \/ b.password = ""

\* --------------------------------------------------------------- responses

NoUserRow == [id |-> 0, email |-> "", created_at |-> 0]

Reply(status, error) ==
  [status |-> status, error |-> error, success |-> FALSE, message |-> "",
   email |-> "", user |-> NoUserRow]

None == Reply(0, "")
ValidationResp == Reply(400, "Email and password required")
ConflictResp == Reply(409, "User already exists")
ServerErrorResp == Reply(500, "Server error")
\* An answer to an unknown email that tells it from a wrong password.
LoginNoUserRespTelling == Reply(404, "User not found")
LoginNoUserResp == Reply(401, "Invalid credentials")
LoginBadPasswordResp == Reply(401, "Invalid credentials")
NotAuthenticatedResp == Reply(401, "Not authenticated")
NotFoundResp == Reply(404, "User not found")
LogoutFailedResp == Reply(500, "Could not log out")
\* The middleware's next(err), answered by express's final handler.
MiddlewareErrorResp == Reply(500, "Internal Server Error")
LogoutResp == [None EXCEPT !.status = 200, !.success = TRUE]
SignupResp(email) ==
  [None EXCEPT !.status = 200, !.success = TRUE, !.message = "Account created",
               !.email = email]
LoginResp(email) ==
  [None EXCEPT !.status = 200, !.success = TRUE, !.message = "Logged in",
               !.email = email]
\* A profile response made of the whole row (SELECT *).
ProfileRespWholeRow(u) == [None EXCEPT !.status = 200, !.user = u]
ProfileResp(u) ==
  [None EXCEPT !.status = 200,
               !.user = [id |-> u.id, email |-> u.email, created_at |-> u.created_at]]

\* ---------------------------------------------------------------- requests

\* No account.
NoRow ==
  [id |-> 0, email |-> "", password_hash |-> [salt |-> 0, of |-> ""],
   created_at |-> 0, plain |-> ""]

\* A slot no request has used yet. A request is: the route (op), the step it
\* is at (pc), its input (body, cookie), req.sessionID (sid), req.session
\* (session; hasSession until it is deleted) as it is and as it was loaded
\* (orig), and the response (resp). The rest is history, which the server does
\* not keep: the store operation that failed (fault), what the cookie named
\* (tok) and the account the email named (acct) on arrival, whether a logout
\* had destroyed the cookie's session before (wasOut), which check a login
\* failed (cause), the account the request inserted (inserted), and the
\* account whose password it was given (proved).
Idle ==
  [op |-> "none", pc |-> "done", body |-> NoBody, cookie |-> 0, sid |-> 0,
   session |-> Empty, orig |-> Empty, hasSession |-> FALSE, resp |-> None,
   fault |-> "", tok |-> "none", acct |-> NoRow,
   wasOut |-> FALSE, cause |-> "", inserted |-> 0, proved |-> 0]

Free(r) == req[r].pc \in {"done", "hung"}

\* The slot the next request takes: slots only name the requests in flight.
NextSlot(r) == Free(r) /\ (r = "r2" => ~Free("r1"))

\* express-session's shouldSave: the session differs from what was loaded.
ShouldSave(q) == q.session # q.orig

\* express-session's shouldTouch: the request's cookie named this session.
ShouldTouch(q) == q.cookie = q.sid /\ ~ShouldSave(q)

\* res.end: the response goes out once the session is saved or touched.
Respond(q, resp) ==
  [q EXCEPT !.resp = resp,
            !.pc = IF q.hasSession /\ (ShouldSave(q) \/ ShouldTouch(q))
                   THEN "end" ELSE "done"]

\* The request of slot r becomes q.
Settle(r, q) == req' = [req EXCEPT ![r] = q]

TypeOK ==
  /\ nextId \in 1..(MaxReq + 2)
  /\ nextSid \in 1..(MaxReq + 2)
  /\ now \in 0..MaxTime
  /\ nreq \in 0..MaxReq
  /\ \A r \in Slots : req[r].pc \in {"find", "insert", "query", "destroy", "end", "done", "hung"}
  /\ nfault \in 0..MaxFaults
  /\ DOMAIN sessions \subseteq Sids
  /\ issued \subseteq Sids
  /\ loggedOut \subseteq Sids
  /\ bound \subseteq Sids \X (1..(MaxReq + 1))

\* The server starts on the database it is pointed at (CREATE TABLE IF NOT
\* EXISTS): empty tables, or the tables an earlier run left, here account "a"
\* signed up with password "p" and its session, in its last tick, still in
\* the store.
InitEmpty ==
  /\ users = {}
  /\ nextId = 1
  /\ sessions = [s \in {} |-> [data |-> Empty, expire |-> 0]]
  /\ nextSid = 1
  /\ issued = {}
  /\ bound = {}

InitLeft ==
  /\ users = {[id |-> 1, email |-> "a", password_hash |-> bcryptHash("p", 1),
               created_at |-> 0, plain |-> "p"]}
  /\ nextId = 2
  /\ sessions = [s \in {1} |-> [data |-> [userId |-> 1, email |-> "a"], expire |-> 0]]
  /\ nextSid = 2
  /\ issued = {1}
  /\ bound = {<<1, 1>>}

Init ==
  /\ InitEmpty \/ InitLeft
  /\ now = 0
  /\ req = [r \in Slots |-> Idle]
  /\ nreq = 0
  /\ nfault = 0
  /\ loggedOut = {}

\* --------------------------------------------------------- the middleware

\* History: what the presented cookie names when the request arrives.
TokenKind(c) ==
  IF c = 0 THEN "none"
  ELSE IF c \notin DOMAIN sessions THEN "missing"
  ELSE IF sessions[c].expire < now THEN "expired"
  ELSE "live"

\* History: the account registered under the request's email when it arrives.
AccountOf(b) ==
  IF \E u \in users : u.email = b.email
  THEN CHOOSE u \in users : u.email = b.email
  ELSE NoRow

\* session(): load the session the cookie names, or generate a new one with a
\* new id when the cookie is absent or names no unexpired row.
Middleware(op, b, c) ==
  LET rows == IF c = 0 THEN {} ELSE StoreGet(c, now)
      sess == IF rows = {} THEN Empty ELSE CHOOSE d \in rows : TRUE
  IN [op |-> op, pc |-> "run", body |-> b, cookie |-> c,
      sid |-> IF rows = {} THEN Fresh ELSE c,
      session |-> sess, orig |-> sess, hasSession |-> TRUE, resp |-> None,
      fault |-> "", tok |-> TokenKind(c), acct |-> AccountOf(b),
      wasOut |-> c \in loggedOut, cause |-> "", inserted |-> 0, proved |-> 0]

\* What every arriving request changes besides its own slot.
Arrives(r, c, n) ==
  /\ nreq < n
  /\ NextSlot(r)
  /\ c \in {0} \cup issued
  /\ nreq' = nreq + 1
  /\ UNCHANGED <<users, nextId, sessions, nextSid, issued, now, nfault, loggedOut, bound>>

\* POST /signup arrives: the middleware, then the handler up to its first await.
SignupArrive(r, b, c, n) ==
  /\ Arrives(r, c, n)
  /\ LET q == Middleware("signup", b, c) IN
     Settle(r, IF Invalid(b) THEN Respond(q, ValidationResp)
               ELSE [q EXCEPT !.pc = "find"])

\* POST /login arrives.
LoginArrive(r, b, c, n) ==
  /\ Arrives(r, c, n)
  /\ LET q == Middleware("login", b, c) IN
     Settle(r, IF Invalid(b) THEN Respond(q, ValidationResp)
               ELSE [q EXCEPT !.pc = "find"])

\* GET /profile arrives.
ProfileArrive(r, c, n) ==
  /\ Arrives(r, c, n)
  /\ LET q == Middleware("profile", NoBody, c) IN
     Settle(r, IF q.session.userId = 0 THEN Respond(q, NotAuthenticatedResp)
               ELSE [q EXCEPT !.pc = "query"])

\* POST /logout arrives.
LogoutArrive(r, c, n) ==
  /\ Arrives(r, c, n)
  /\ LET q == Middleware("logout", NoBody, c) IN
     Settle(r, [q EXCEPT !.pc = "destroy"])

\* The middleware's store.get fails: next(err), no session, no handler.
ArriveFault(r, op, c, n) ==
  /\ nreq < n
  /\ nfault < MaxFaults
  /\ NextSlot(r)
  /\ c \in issued
  /\ nreq' = nreq + 1
  /\ nfault' = nfault + 1
  /\ Settle(r, [Idle EXCEPT !.op = op, !.cookie = c, !.tok = TokenKind(c),
                            !.wasOut = c \in loggedOut, !.fault = "get",
                            !.resp = MiddlewareErrorResp])
  /\ UNCHANGED <<users, nextId, sessions, nextSid, issued, now, loggedOut, bound>>

\* ------------------------------------------------------------------ signup

\* const existing = await findUserByEmail(email)
SignupFind(r) ==
  /\ req[r].op = "signup" /\ req[r].pc = "find"
  /\ Settle(r, IF findUserByEmail(req[r].body.email) # {}
               THEN Respond(req[r], ConflictResp)
               ELSE [req[r] EXCEPT !.pc = "insert"])
  /\ UNCHANGED <<users, nextId, sessions, nextSid, issued, now, nreq, nfault, loggedOut, bound>>

\* The salt bcrypt.hash draws: 16 random bytes, a value no earlier call drew.
bcryptGenSalt == nextId

\* The row INSERT INTO users adds; plain is history, the password it was made of.
NewUser(b, salt) ==
  [id |-> nextId, email |-> b.email,
   password_hash |-> bcryptHash(b.password, salt),
   created_at |-> now, plain |-> b.password]

\* What the handler does when the INSERT violates UNIQUE (email): the query
\* throws, and the catch block answers.
SignupDuplicate(q) == Respond(q, ServerErrorResp)

\* A users table made without the constraint.
UniqueViolationNever(email) == FALSE

\* email TEXT UNIQUE NOT NULL: the INSERT of an email a row holds is refused.
UniqueViolation(email) == \E u \in users : u.email = email

\* A signup whose statement is INSERT ... ON CONFLICT (email) DO UPDATE SET
\* password_hash: a held email gets the new digest and the signup succeeds.
SignupInsertUpsert(r) ==
  /\ req[r].op = "signup" /\ req[r].pc = "insert"
  /\ nextId' = nextId + 1
  /\ LET q == req[r]
         old == {v \in users : v.email = q.body.email}
         u == IF old = {} THEN NewUser(q.body, bcryptGenSalt)
              ELSE [(CHOOSE v \in old : TRUE) EXCEPT
                      !.password_hash = bcryptHash(q.body.password, bcryptGenSalt),
                      !.plain = q.body.password]
     IN /\ users' = (users \ old) \cup {u}
        /\ Settle(r, Respond([q EXCEPT !.session = [userId |-> u.id, email |-> u.email],
                                       !.inserted = u.id, !.proved = u.id],
                             SignupResp(u.email)))
  /\ UNCHANGED <<sessions, nextSid, issued, now, nreq, nfault, loggedOut, bound>>

\* hash = await bcrypt.hash(...); insert = await pool.query(INSERT ...);
\* req.session.userId, req.session.email; res.json.
\* The sequence is advanced before the UNIQUE constraint is checked.
SignupInsert(r) ==
  /\ req[r].op = "signup" /\ req[r].pc = "insert"
  /\ nextId' = nextId + 1
  /\ LET q == req[r]
         u == NewUser(q.body, bcryptGenSalt)
     IN IF UniqueViolation(q.body.email)
        THEN /\ users' = users
             /\ Settle(r, SignupDuplicate(q))
        ELSE /\ users' = users \cup {u}
             /\ Settle(r, Respond([q EXCEPT !.session = [userId |-> u.id, email |-> u.email],
                                            !.inserted = u.id, !.proved = u.id],
                                  SignupResp(u.email)))
  /\ UNCHANGED <<sessions, nextSid, issued, now, nreq, nfault, loggedOut, bound>>

\* A query of the signup handler fails: catch (err), 500.
SignupFault(r) ==
  /\ req[r].op = "signup" /\ req[r].pc \in {"find", "insert"}
  /\ nfault < MaxFaults
  /\ nfault' = nfault + 1
  /\ Settle(r, Respond([req[r] EXCEPT !.fault = "query"], ServerErrorResp))
  /\ UNCHANGED <<users, nextId, sessions, nextSid, issued, now, nreq, loggedOut, bound>>

\* ------------------------------------------------------------------- login

\* A login that sets req.session.userId and leaves req.session.email as the
\* session had it.
LoginCheckIdOnly(q, rows) ==
  IF rows = {} THEN Respond([q EXCEPT !.cause = "nouser"], LoginNoUserResp)
  ELSE LET user == CHOOSE u \in rows : TRUE IN
       IF ~bcryptCompare(q.body.password, user.password_hash)
       THEN Respond([q EXCEPT !.cause = "badpw"], LoginBadPasswordResp)
       ELSE Respond([q EXCEPT !.session = [q.session EXCEPT !.userId = user.id],
                              !.proved = IF q.body.password = user.plain THEN user.id ELSE 0],
                    LoginResp(user.email))

\* The handler after findUserByEmail returned rows: the two 401s, or the
\* session is bound to the account and the login succeeds.
LoginCheck(q, rows) ==
  IF rows = {} THEN Respond([q EXCEPT !.cause = "nouser"], LoginNoUserResp)
  ELSE LET user == CHOOSE u \in rows : TRUE IN
       IF ~bcryptCompare(q.body.password, user.password_hash)
       THEN Respond([q EXCEPT !.cause = "badpw"], LoginBadPasswordResp)
       ELSE Respond([q EXCEPT !.session = [userId |-> user.id, email |-> user.email],
                              !.proved = IF q.body.password = user.plain THEN user.id ELSE 0],
                    LoginResp(user.email))

\* user = await findUserByEmail(email); ok = await bcrypt.compare(...); ...
LoginFind(r) ==
  /\ req[r].op = "login" /\ req[r].pc = "find"
  /\ Settle(r, LoginCheck(req[r], findUserByEmail(req[r].body.email)))
  /\ UNCHANGED <<users, nextId, sessions, nextSid, issued, now, nreq, nfault, loggedOut, bound>>

\* The query of the login handler fails: catch (err), 500.
LoginFault(r) ==
  /\ req[r].op = "login" /\ req[r].pc = "find"
  /\ nfault < MaxFaults
  /\ nfault' = nfault + 1
  /\ Settle(r, Respond([req[r] EXCEPT !.fault = "query"], ServerErrorResp))
  /\ UNCHANGED <<users, nextId, sessions, nextSid, issued, now, nreq, loggedOut, bound>>

\* ----------------------------------------------------------------- profile

\* A handler that answers from the session's copy of the account and does
\* not look at the rows.
ProfileCheckTrusting(q, rows) ==
  Respond(q, ProfileResp([id |-> q.session.userId, email |-> q.session.email,
                          created_at |-> 0]))

\* The handler after the SELECT by id returned rows.
ProfileCheck(q, rows) ==
  IF rows = {} THEN Respond(q, NotFoundResp)
  ELSE Respond(q, ProfileResp(CHOOSE u \in rows : TRUE))

\* r = await pool.query(SELECT ... WHERE id = $1, [req.session.userId])
ProfileQuery(r) ==
  /\ req[r].op = "profile" /\ req[r].pc = "query"
  /\ Settle(r, ProfileCheck(req[r], findUserById(req[r].session.userId)))
  /\ UNCHANGED <<users, nextId, sessions, nextSid, issued, now, nreq, nfault, loggedOut, bound>>

\* The query of the profile handler fails. The handler has no try/catch: its
\* promise rejects. Under express 4 nothing observes the rejection and no
\* response is ever written; under express 5 the router passes it to next(err)
\* and the final handler answers 500.
ProfileFault(r) ==
  /\ req[r].op = "profile" /\ req[r].pc = "query"
  /\ nfault < MaxFaults
  /\ nfault' = nfault + 1
  /\ \/ Settle(r, [req[r] EXCEPT !.fault = "query", !.pc = "hung"])
     \/ Settle(r, Respond([req[r] EXCEPT !.fault = "query"], MiddlewareErrorResp))
  /\ UNCHANGED <<users, nextId, sessions, nextSid, issued, now, nreq, loggedOut, bound>>

\* ------------------------------------------------------------------ logout

\* req.session.destroy(cb): delete req.session, store.destroy(sid), res.json.
LogoutDestroy(r) ==
  /\ req[r].op = "logout" /\ req[r].pc = "destroy"
  /\ sessions' = StoreDestroy(req[r].sid)
  /\ loggedOut' = IF req[r].sid \in DOMAIN sessions
                  THEN loggedOut \cup {req[r].sid} ELSE loggedOut
  /\ Settle(r, Respond([req[r] EXCEPT !.hasSession = FALSE], LogoutResp))
  /\ UNCHANGED <<users, nextId, nextSid, issued, now, nreq, nfault, bound>>

\* store.destroy fails: the callback gets err, 500.
LogoutFault(r) ==
  /\ req[r].op = "logout" /\ req[r].pc = "destroy"
  /\ nfault < MaxFaults
  /\ nfault' = nfault + 1
  /\ Settle(r, Respond([req[r] EXCEPT !.hasSession = FALSE, !.fault = "destroy"],
                        LogoutFailedResp))
  /\ UNCHANGED <<users, nextId, sessions, nextSid, issued, now, nreq, loggedOut, bound>>

\* ----------------------------------------------------------------- res.end

\* The id the session is stored and sent under.
EndSid(q) == IF q.sid = Fresh THEN nextSid ELSE q.sid

\* A res.end that refreshes the session's expiry and never stores the session.
EndStoreTouchOnly(q) == StoreTouch(q.sid, now)

\* The session table after res.end's store call: set when the session was
\* modified, touch otherwise.
EndStore(q) ==
  IF ShouldSave(q) THEN StoreSet(EndSid(q), q.session, now) ELSE StoreTouch(q.sid, now)

\* What res.end changes besides the session table: a modified new session's id
\* goes out in a Set-Cookie, and the response is written.
Ends(r) ==
  /\ req[r].pc = "end"
  /\ nextSid' = IF req[r].sid = Fresh THEN nextSid + 1 ELSE nextSid
  /\ issued' = IF ShouldSave(req[r]) THEN issued \cup {EndSid(req[r])} ELSE issued
  /\ UNCHANGED <<users, nextId, now, nreq, loggedOut>>

\* res.end of a request with a session: save or touch it, then write the
\* response.
End(r) ==
  /\ Ends(r)
  /\ sessions' = EndStore(req[r])
  /\ bound' = IF ShouldSave(req[r]) /\ req[r].proved # 0
              THEN bound \cup {<<EndSid(req[r]), req[r].proved>>} ELSE bound
  /\ Settle(r, [req[r] EXCEPT !.pc = "done", !.sid = EndSid(req[r])])
  /\ UNCHANGED nfault

\* store.set or store.touch fails: express-session defers next(err) and writes
\* the response the handler made all the same.
EndFault(r) ==
  /\ Ends(r)
  /\ nfault < MaxFaults
  /\ nfault' = nfault + 1
  /\ Settle(r, [req[r] EXCEPT !.pc = "done", !.sid = EndSid(req[r]),
                              !.fault = IF ShouldSave(req[r]) THEN "save" ELSE "touch"])
  /\ UNCHANGED <<sessions, bound>>

\* ------------------------------------------------------------- environment

\* 24 hours pass.
Tick ==
  /\ now < MaxTime
  /\ now' = now + 1
  /\ UNCHANGED <<users, nextId, sessions, nextSid, issued, req, nreq, nfault, loggedOut, bound>>

\* PgSession's periodic pruning of expired rows.
Prune ==
  /\ sessions' = StorePrune(now)
  /\ sessions' # sessions
  /\ UNCHANGED <<users, nextId, nextSid, issued, now, req, nreq, nfault, loggedOut, bound>>

\* Another client of the database deletes an account (DELETE FROM users
\* WHERE id = ...); the server has no route that does.
DeleteAccount(u) ==
  /\ u \in users
  /\ users' = users \ {u}
  /\ UNCHANGED <<nextId, sessions, nextSid, issued, now, req, nreq, nfault, loggedOut, bound>>

\* The requests and their steps, no store operation failing, at most n
\* requests in all.
Requests(n) ==
  \/ \E r \in Slots, b \in Bodies, c \in Cookies : SignupArrive(r, b, c, n)
  \/ \E r \in Slots, b \in Bodies, c \in Cookies : LoginArrive(r, b, c, n)
  \/ \E r \in Slots, c \in Cookies : ProfileArrive(r, c, n)
  \/ \E r \in Slots, c \in Cookies : LogoutArrive(r, c, n)
  \/ \E r \in Slots : SignupFind(r)
  \/ \E r \in Slots : SignupInsert(r)
  \/ \E r \in Slots : LoginFind(r)
  \/ \E r \in Slots : ProfileQuery(r)
  \/ \E r \in Slots : LogoutDestroy(r)
  \/ \E r \in Slots : End(r)

\* A store operation fails.
Faults(n) ==
  \/ \E r \in Slots, op \in {"signup", "login", "profile", "logout"}, c \in Cookies :
       ArriveFault(r, op, c, n)
  \/ \E r \in Slots : SignupFault(r)
  \/ \E r \in Slots : LoginFault(r)
  \/ \E r \in Slots : ProfileFault(r)
  \/ \E r \in Slots : LogoutFault(r)
  \/ \E r \in Slots : EndFault(r)

\* The clock stands still and no store operation fails.
Next == Requests(MaxReq)

Spec == Init /\ [][Next]_vars

\* The clock runs: sessions expire and are pruned.
NextClock == Requests(ClockReq) \/ Tick \/ Prune

SpecClock == Init /\ [][NextClock]_vars

\* Store operations fail.
NextFaults == Requests(FaultReq) \/ Faults(FaultReq)

SpecFaults == Init /\ [][NextFaults]_vars

\* Accounts are deleted behind the server's back.
NextAdmin == Requests(AdminReq) \/ \E u \in users : DeleteAccount(u)

SpecAdmin == Init /\ [][NextAdmin]_vars


\* ------------------------------------------------------------------ claims

\* The response of request q has been written.
Done(q) == q.op # "none" /\ q.pc = "done"

\* The handler of request q has made its response.
Answered(q) == q.op # "none" /\ q.pc \in {"end", "done"}

\* C1: two signups with the same email, both valid and both arriving before
\* the email is registered, end as one success (200) and one ConflictError
\* (409 "User already exists"), however their steps interleave.
C1_ConcurrentSignupOneConflict ==
  \A r1 \in Slots, r2 \in Slots :
    ( /\ r1 # r2
      /\ Done(req[r1]) /\ Done(req[r2])
      /\ req[r1].op = "signup" /\ req[r2].op = "signup"
      /\ ~Invalid(req[r1].body) /\ ~Invalid(req[r2].body)
      /\ req[r1].body.email = req[r2].body.email
      /\ req[r1].acct = NoRow /\ req[r2].acct = NoRow )
    => {req[r1].resp, req[r2].resp}
         = {SignupResp(req[r1].body.email), ConflictResp}

\* C2: a profile request that arrives with a token whose session a completed
\* logout destroyed is answered 401 "Not authenticated".
C2_DestroyedTokenNeverAuthenticates ==
  \A r \in Slots :
    (Answered(req[r]) /\ req[r].op = "profile" /\ req[r].wasOut)
    => req[r].resp = NotAuthenticatedResp

\* C3: profile answers 200 with account X only when the cookie named a live
\* session on arrival and a signup of X, or a login with X's password, bound
\* that session to X; without a live session it answers 401 "Not
\* authenticated" with no account data.
C3_ProfileOnlyForBoundSession ==
  \A r \in Slots :
    (Answered(req[r]) /\ req[r].op = "profile")
    => /\ req[r].resp.status = 200
          => /\ req[r].tok = "live"
             /\ <<req[r].sid, req[r].resp.user.id>> \in bound
       /\ req[r].tok # "live" => req[r].resp = NotAuthenticatedResp

\* C3 witness: profile answered 200 with account "b", which a signup of this
\* behaviour made.
C3_Witness ==
  \E r \in Slots :
    /\ Done(req[r]) /\ req[r].op = "profile"
    /\ req[r].resp.status = 200 /\ req[r].resp.user.email = "b"

C5_SignupRegisteredEmailConflicts ==
  \A r \in Slots :
    (req[r].op = "signup" /\ ~Invalid(req[r].body) /\ req[r].acct # NoRow)
    => /\ req[r].pc # "insert"
       /\ req[r].inserted = 0
       /\ Answered(req[r]) => req[r].resp = ConflictResp
       /\ {u \in users : u.email = req[r].body.email} = {req[r].acct}

\* C5 witness: the conflict answered to a signup whose password is not the
\* account's.
C5_Witness ==
  \E r \in Slots :
    /\ Done(req[r]) /\ req[r].op = "signup" /\ req[r].acct # NoRow
    /\ req[r].body.password # req[r].acct.plain
    /\ req[r].resp = ConflictResp

\* C6: a successful signup returns the email it was given and has inserted
\* the account; a login that arrives afterwards with the email and password
\* of that signup is answered 200 with the same email.
C6_LoginAfterSignupSucceeds ==
  \A r \in Slots :
    /\ ( /\ Answered(req[r]) /\ req[r].op = "signup"
         /\ req[r].resp.status = 200 )
       => /\ req[r].resp.email = req[r].body.email
          /\ \E u \in users : /\ u.id = req[r].inserted
                              /\ u.email = req[r].body.email
                              /\ u.plain = req[r].body.password
    /\ ( /\ Answered(req[r]) /\ req[r].op = "login"
         /\ ~Invalid(req[r].body)
         /\ req[r].acct # NoRow
         /\ req[r].acct.plain = req[r].body.password )
       => /\ req[r].resp.status = 200
          /\ req[r].resp.success
          /\ req[r].resp.email = req[r].body.email

\* C6 witness: a login answered 200 for account "b", which a signup of this
\* behaviour made.
C6_Witness ==
  \E r \in Slots :
    /\ Done(req[r]) /\ req[r].op = "login"
    /\ req[r].body.email = "b" /\ req[r].resp = LoginResp("b")

\* C7: a successful login answers with a session whose id is not the id of
\* a session that existed when the login arrived: the session presented
\* with the login is neither reused nor rebound.
C7_LoginIssuesNewSession ==
  \A r \in Slots :
    ( /\ Answered(req[r]) /\ req[r].op = "login"
      /\ req[r].resp.status = 200 /\ req[r].tok = "live" )
    => req[r].sid # req[r].cookie

LogoutStep(r) == req[r].op = "logout" /\ req[r].pc = "destroy" /\ req'[r].pc = "done"

\* C9: logout answers 200 {success: true} whatever its cookie named (a live,
\* an expired or a destroyed session, or no cookie), and right after it the
\* store finds no session under the cookie (an expired row counts as none).
C9_LogoutIdempotent ==
  [][\A r \in Slots :
       LogoutStep(r)
       => /\ req'[r].resp = LogoutResp
          /\ StoreGet(req[r].cookie, now)' = {}]_vars

\* C10: a request in which a store operation failed gets a response, and a
\* signup that inserted its account had no store operation fail.
C10_StoreFailureNoPartialState ==
  \A r \in Slots :
    /\ req[r].pc # "hung"
    /\ (req[r].op = "signup" /\ req[r].inserted # 0) => req[r].fault = ""

\* C11: a signup or login with an empty or missing email or password is
\* answered 400 "Email and password required" as it arrives, and none of its
\* steps looks an account up, computes or compares a digest, adds an account,
\* or creates or changes a session.
C11_ValidationBeforeStore ==
  [][\A r \in Slots :
       ( /\ req'[r] # req[r]
         /\ req'[r].op \in {"signup", "login"}
         /\ (req'[r].body.email = "" \/ req'[r].body.password = "") )
       => /\ req'[r].pc \in {"end", "done"}
          /\ req'[r].resp = ValidationResp
          /\ req'[r].cause = "" /\ req'[r].inserted = 0 /\ req'[r].proved = 0
          /\ req'[r].session = req'[r].orig
          /\ users' = users /\ nextId' = nextId
          /\ sessions' = sessions /\ issued' = issued]_vars

\* C12: no response carries a password digest. A signup or login response has
\* no user object, and when it succeeds it carries success, a message and the
\* email of the request; a successful profile response carries the id, email
\* and created_at of an account and nothing else; every other response is an
\* error message alone.
C12_NoDigestInResponse ==
  \A r \in Slots :
    Answered(req[r])
    => LET q == req[r] IN
       /\ DOMAIN q.resp.user = {"id", "email", "created_at"}
       /\ q.op \in {"signup", "login", "logout"} => q.resp.user = NoUserRow
       /\ (q.op \in {"signup", "login"} /\ q.resp.status = 200)
          => q.resp \in {SignupResp(q.body.email), LoginResp(q.body.email)}
       /\ (q.op = "profile" /\ q.resp.status = 200)
          => /\ \E u \in users :
                  q.resp.user = [id |-> u.id, email |-> u.email, created_at |-> u.created_at]
             /\ [q.resp EXCEPT !.user = NoUserRow] = [None EXCEPT !.status = 200]
       /\ q.resp.status \notin {200} => q.resp = Reply(q.resp.status, q.resp.error)

\* C12, reached: profile answered 200 for an account whose row holds a digest.
C12_Witness ==
  \E r \in Slots :
    /\ Done(req[r]) /\ req[r].op = "profile" /\ req[r].resp.status = 200
    /\ \E u \in users : u.id = req[r].resp.user.id /\ u.password_hash.of # ""

\* No two accounts share an email or an id.
UniqueAccounts(rows) ==
  \A u \in rows, v \in rows : (u.email = v.email \/ u.id = v.id) => u = v

\* C13: whatever requests interleave, no two accounts have the same email,
\* and an account, once created, stays in the table under the same id and
\* the same email.
C13_EmailUniqueAccountImmutable ==
  [][/\ UniqueAccounts(users) /\ UniqueAccounts(users')
     /\ \A u \in users : \E v \in users' : v.id = u.id /\ v.email = u.email]_vars

\* C13, reached: the constraint refused the INSERT of a signup that had passed
\* its own look-up, next to two accounts.
C13_Witness ==
  \E r \in Slots :
    /\ Done(req[r]) /\ req[r].op = "signup" /\ req[r].acct = NoRow
    /\ req[r].resp = ServerErrorResp
    /\ Cardinality(users) = 2

\* The step in which a profile request arrives in slot r with the token a
\* successful signup, the request before it in the slot, was answered with,
\* while no logout destroyed the token's session and no other signup or
\* login stored a session under it.
ProfileAfterSignup(r) ==
  /\ Done(req[r]) /\ req[r].op = "signup" /\ req[r].resp.status = 200
  /\ nreq' = nreq + 1
  /\ req'[r].op = "profile" /\ req'[r].cookie = req[r].sid
  /\ {x \in bound : x[1] = req[r].sid} = {<<req[r].sid, req[r].inserted>>}
  /\ req[r].sid \notin loggedOut

\* C14: a profile request that presents the token a successful signup
\* returned, with no login in between, finds the session of that token bound
\* to the account the signup created, and is answered 200 with that
\* account's id and the email the signup returned.
C14_SignupIssuesSession ==
  [][\A r \in Slots :
       /\ ProfileAfterSignup(r)
          => /\ req'[r].pc = "query"
             /\ req'[r].session = [userId |-> req[r].inserted, email |-> req[r].resp.email]
       /\ (req[r].op = "profile" /\ req[r].pc = "query" /\ req'[r] # req[r])
          => /\ req'[r].resp.status = 200
             /\ req'[r].resp.user.id = req[r].session.userId
             /\ req'[r].resp.user.email = req[r].session.email]_vars

\* C14, reached: on empty tables a signup of "b" and then a profile request,
\* answered 200 with account 1, "b".
C14_Witness ==
  \E r \in Slots :
    /\ nreq = 2
    /\ Done(req[r]) /\ req[r].op = "profile" /\ req[r].resp.status = 200
    /\ req[r].resp.user.id = 1 /\ req[r].resp.user.email = "b"
    /\ bound = {<<req[r].cookie, 1>>}

\* The step in which the query of profile request r returns.
ProfileStep(r) == req[r].op = "profile" /\ req[r].pc = "query" /\ req'[r] # req[r]

\* C15: profile answers from the row the users table holds under the
\* session's userId when its query runs: 404 "User not found" when the
\* table holds none, the account having been deleted, and otherwise 200 with
\* the id, email and created_at of that row.
C15_ProfileRefetchesAccount ==
  [][\A r \in Slots :
       ProfileStep(r)
       => IF \E u \in users : u.id = req[r].session.userId
          THEN \E u \in users :
                 /\ u.id = req[r].session.userId
                 /\ req'[r].resp.status = 200
                 /\ req'[r].resp.user =
                      [id |-> u.id, email |-> u.email, created_at |-> u.created_at]
          ELSE req'[r].resp = NotFoundResp]_vars

\* C15, reached: 404 answered to a live session whose account was deleted.
C15_Witness ==
  \E r \in Slots :
    /\ Done(req[r]) /\ req[r].op = "profile" /\ req[r].tok = "live"
    /\ req[r].resp = NotFoundResp
    /\ \A u \in users : u.id # req[r].session.userId

\* C16: the steps of login, profile and logout requests leave the users
\* table as it is, and so does a signup that does not succeed; the table
\* changes only in the step in which a signup's INSERT succeeds, which adds
\* one account, that of the signup, next to the accounts there were. An
\* account whose session a logout destroys is still there, unaltered.
C16_OnlySignupChangesAccounts ==
  [][/\ \A r \in Slots :
          ( /\ req'[r] # req[r]
            /\ \/ req'[r].op \in {"login", "profile", "logout"}
               \/ req'[r].op = "signup" /\ req'[r].resp.status # 200 )
          => users' = users
     /\ users' # users
        => \E r \in Slots :
             /\ req[r].op = "signup" /\ req[r].pc = "insert"
             /\ req'[r].resp = SignupResp(req[r].body.email)
             /\ users \subseteq users'
             /\ \E u \in users' \ users :
                  /\ users' = users \cup {u}
                  /\ u.id = req'[r].inserted /\ u.email = req[r].body.email
     /\ \A r \in Slots :
          LogoutStep(r)
          => \A x \in bound : x[1] = req[r].sid
               => \A u \in users : u.id = x[2] => u \in users']_vars

\* C16, reached: a logout has destroyed the session of an account that is
\* still in the table, next to an account a signup added.
C16_Witness ==
  \E r \in Slots :
    /\ Done(req[r]) /\ req[r].op = "logout" /\ req[r].tok = "live"
    /\ req[r].cookie \in loggedOut /\ req[r].cookie \notin DOMAIN sessions
    /\ \E x \in bound : x[1] = req[r].cookie /\ \E u \in users : u.id = x[2]
    /\ Cardinality(users) = 2

\* Session data d names no account, or the id and the email of one account
\* of the table.
RefersToAccount(d) ==
  d.userId # 0 => \E u \in users : u.id = d.userId /\ u.email = d.email

\* C17: every session row that carries a userId, and every req.session in a
\* request, carries the id of an account of the table together with that
\* account's email, also while signups and logins on one token interleave;
\* and no profile request is answered 404.
C17_SessionsReferToAccounts ==
  /\ \A s \in DOMAIN sessions : RefersToAccount(sessions[s].data)
  /\ \A r \in Slots : RefersToAccount(req[r].session) /\ RefersToAccount(req[r].orig)
  /\ \A r \in Slots : req[r].op = "profile" => req[r].resp.status # 404

\* C17, reached: a signup and a login on one token, the login having loaded
\* the session before the signup stored it, which set it to different accounts.
C17_Witness ==
  \E r1 \in Slots, r2 \in Slots :
    /\ Done(req[r1]) /\ req[r1].op = "signup" /\ req[r1].resp.status = 200
    /\ Done(req[r2]) /\ req[r2].op = "login" /\ req[r2].resp.status = 200
    /\ req[r1].tok = "live" /\ req[r2].tok = "live"
    /\ req[r1].cookie = req[r2].cookie
    /\ req[r1].orig = req[r2].orig
    /\ req[r1].session # req[r1].orig
    /\ req[r1].session # req[r2].session

\* Request q is a signup or a login that failed: 400, 401 or 409.
Failed(q) == q.op \in {"signup", "login"} /\ q.resp.status \in {400, 401, 409}

\* C18: no step of a signup or login that fails with 400, 401 or 409 changes
\* the session table or issues a session id, whether the request presented no
\* session or a live one: no session is created, and a presented live
\* session stays as it was, bound to the same account.
C18_FailedRequestLeavesSessions ==
  [][\A r \in Slots :
       (req'[r] # req[r] /\ Failed(req'[r]))
       => sessions' = sessions /\ issued' = issued]_vars

=============================================================================
